---- MODULE Spec2Model ----
(***************************************************************************)
(* Model of library/etcd.py, the Ansible module that reconciles one key    *)
(* of an etcd v2 store with a requested state (present, directory,         *)
(* absent).  One run of main() is one action; the store is the single key  *)
(* the module is given, as python-etcd reports it.  The store is assumed   *)
(* reachable: transport failures are not part of the model.                *)
(***************************************************************************)
EXTENDS Integers, Sequences, FiniteSets, TLC

\* Number of distinct non-null values a leaf or the value parameter can take.
MaxValue == 2
\* Number of distinct child keys a directory can hold.
MaxChildren == 2

\* Python's None, as the value of a parameter or of a node without value.
None == 0

Values == 1..MaxValue
ChildKeys == 1..MaxChildren

AbsentNode == [kind |-> "absent", value |-> None, children |-> {}]
LeafNode(v) == [kind |-> "leaf", value |-> v, children |-> {}]
DirNode(c) == [kind |-> "dir", value |-> None, children |-> c]

\* The states the key can be in on the etcd server.
Nodes ==
  {AbsentNode} \cup {LeafNode(v) : v \in Values}
               \cup {DirNode(c) : c \in SUBSET ChildKeys}

\* module.params together with module.check_mode.
Params ==
  [state : {"present", "absent", "directory"},
   value : {None} \cup Values,
   override : BOOLEAN,
   recursive : BOOLEAN,
   check_mode : BOOLEAN]

-----------------------------------------------------------------------------
(* The etcd client, as the module uses it.                                 *)

\* client.get(key) / client.read(key): raises EtcdKeyNotFound for a missing
\* key; a directory node carries no value (value is None), a leaf has no
\* children.
client_read(st) ==
  [found |-> st.kind # "absent",
   dir |-> st.kind = "dir",
   value |-> st.value,
   children |-> st.children]

\* client.write(key, value): sets a leaf; etcd refuses to set a value on a
\* directory (EtcdNotFile) and leaves it as it is.
client_write(st, v) ==
  IF st.kind = "dir"
    THEN [store |-> st, raised |-> "EtcdNotFile"]
    ELSE [store |-> LeafNode(v), raised |-> ""]

\* client.write(key, None, dir=True): creates the directory at a free key.
client_write_dir(st) ==
  IF st.kind = "absent"
    THEN [store |-> DirNode({}), raised |-> ""]
    ELSE [store |-> st, raised |-> "EtcdNotFile"]

\* client.delete(key, recursive=..., dir=...).
client_delete(st, recursive, dir) ==
  CASE st.kind = "absent" -> [store |-> st, raised |-> "EtcdKeyNotFound"]
    [] st.kind = "leaf" -> [store |-> AbsentNode, raised |-> ""]
    [] st.kind = "dir" /\ recursive -> [store |-> AbsentNode, raised |-> ""]
    [] st.kind = "dir" /\ ~recursive /\ dir ->
         IF st.children = {}
           THEN [store |-> AbsentNode, raised |-> ""]
           ELSE [store |-> st, raised |-> "EtcdDirNotEmpty"]
    [] OTHER -> [store |-> st, raised |-> "EtcdNotFile"]

-----------------------------------------------------------------------------
(* How a run of main() ends.                                               *)

\* module.exit_json(**results)
exit_json(st, results, calls) ==
  [status |-> "ok", msg |-> "", changed |-> results.changed,
   dir |-> results.dir, calls |-> calls, store |-> st]

\* module.fail_json(msg=...): no changed key is passed.
fail_json(st, msg, calls) ==
  [status |-> "failed", msg |-> msg, changed |-> FALSE,
   dir |-> FALSE, calls |-> calls, store |-> st]

\* An exception no except clause of main() catches.
uncaught(st, exc, calls) ==
  [status |-> "exception", msg |-> exc, changed |-> FALSE,
   dir |-> FALSE, calls |-> calls, store |-> st]

-----------------------------------------------------------------------------
(* The observation step.                                                   *)

\* prev_value = client.get(key).value, None on EtcdKeyNotFound.
get_prev_value(st) ==
  LET r == client_read(st)
  IN IF r.found THEN r.value ELSE None

\* full_record = client.read(key): data is None on EtcdKeyNotFound; the
\* 'children' key of data is set only for a non-empty list of children.
read_data(st) ==
  LET r == client_read(st)
  IN IF r.found
       THEN [isNone |-> FALSE, dir |-> r.dir,
             hasChildrenKey |-> r.children # {}, children |-> r.children]
       ELSE [isNone |-> TRUE, dir |-> FALSE,
             hasChildrenKey |-> FALSE, children |-> {}]

\* results = dict(changed=False, key=key, dir=False), dir set by the read.
read_results(st) ==
  LET r == client_read(st)
  IN [changed |-> FALSE, dir |-> r.found /\ r.dir]

-----------------------------------------------------------------------------
(* The decision step of main(), one operator per branch.                   *)

\* if module.check_mode: ... module.exit_json(**results)
check_mode_exit(st, p, prev_value, results) ==
  IF p.state = "present" /\ p.value = None /\ prev_value # None
    THEN exit_json(st, [results EXCEPT !.changed = FALSE], <<>>)
    ELSE IF (p.state = "absent" /\ prev_value # None)
              \/ (p.state = "present" /\ prev_value # p.value)
      THEN exit_json(st, [results EXCEPT !.changed = TRUE], <<>>)
      ELSE exit_json(st, results, <<>>)

\* if state == 'directory':
state_directory(st, p, prev_value, results) ==
  IF prev_value = None /\ ~results.dir
    THEN LET w == client_write_dir(st)
         IN IF w.raised # ""
              THEN uncaught(w.store, w.raised, <<"write_dir">>)
              ELSE exit_json(w.store,
                             [results EXCEPT !.changed = TRUE, !.dir = TRUE],
                             <<"write_dir">>)
    ELSE IF results.dir
           THEN exit_json(st, results, <<>>)
           ELSE fail_json(st, "PathConflict", <<>>)

\* state_present without the test of line 323: the write is issued with
\* whatever value was given.
state_present_unchecked(st, p, prev_value, results) ==
  IF prev_value = None
    THEN LET w == client_write(st, p.value)
         IN IF w.raised # ""
              THEN uncaught(w.store, w.raised, <<"write">>)
              ELSE exit_json(w.store, [results EXCEPT !.changed = TRUE],
                             <<"write">>)
    ELSE IF prev_value = p.value \/ p.value = None
      THEN exit_json(st, [results EXCEPT !.changed = FALSE], <<>>)
      ELSE IF p.override
        THEN LET w == client_write(st, p.value)
             IN exit_json(w.store, [results EXCEPT !.changed = TRUE],
                          <<"write">>)
        ELSE fail_json(st, "OverwriteRefused", <<>>)

\* elif state == 'present':
state_present(st, p, prev_value, results) ==
  IF prev_value = None
    THEN IF p.value = None
      THEN fail_json(st, "MissingValue", <<>>)
      ELSE LET w == client_write(st, p.value)
           IN IF w.raised # ""
                THEN uncaught(w.store, w.raised, <<"write">>)
                ELSE exit_json(w.store, [results EXCEPT !.changed = TRUE],
                               <<"write">>)
    ELSE IF prev_value = p.value \/ p.value = None
      THEN exit_json(st, [results EXCEPT !.changed = FALSE], <<>>)
      ELSE IF p.override
        THEN LET w == client_write(st, p.value)
             IN IF w.raised # ""
                  THEN uncaught(w.store, w.raised, <<"write">>)
                  ELSE exit_json(w.store, [results EXCEPT !.changed = TRUE],
                                 <<"write">>)
        ELSE fail_json(st, "OverwriteRefused", <<>>)

\* data['children'] is None: when the key is set it holds a dict.
children_is_none(data) == FALSE

\* state_absent with the leaf deleted but changed left as it was.
state_absent_silent(st, p, prev_value, data, results) ==
  IF prev_value = None
    THEN exit_json(st, [results EXCEPT !.changed = FALSE], <<>>)
    ELSE LET d == client_delete(st, FALSE, FALSE)
         IN exit_json(d.store, results, <<"delete">>)

\* elif state == 'absent':
state_absent(st, p, prev_value, data, results) ==
  IF prev_value = None
    THEN exit_json(st, [results EXCEPT !.changed = FALSE], <<>>)
    ELSE IF data.isNone
      THEN uncaught(st, "TypeError", <<>>)
      ELSE IF data.dir
        THEN IF ~data.hasChildrenKey
          THEN uncaught(st, "KeyError", <<>>)
          ELSE IF children_is_none(data) /\ p.recursive
            THEN LET d == client_delete(st, TRUE, FALSE)
                 IN IF d.raised # ""
                      THEN fail_json(d.store, "DirectoryDeleteFailed",
                                     <<"delete_recursive">>)
                      ELSE exit_json(d.store, results, <<"delete_recursive">>)
            ELSE IF children_is_none(data)
              THEN LET d == client_delete(st, FALSE, TRUE)
                   IN IF d.raised # ""
                        THEN fail_json(d.store, "DirectoryNotEmpty",
                                       <<"delete_dir">>)
                        ELSE exit_json(d.store, results, <<"delete_dir">>)
              ELSE exit_json(st, results, <<>>)
        ELSE LET d == client_delete(st, FALSE, FALSE)
             IN IF d.raised # ""
                  THEN uncaught(d.store, d.raised, <<"delete">>)
                  ELSE exit_json(d.store, [results EXCEPT !.changed = TRUE],
                                 <<"delete">>)

\* The branches of main() after the check-mode block.
real_run(st, p, prev_value, data, results) ==
  CASE p.state = "directory" -> state_directory(st, p, prev_value, results)
    [] p.state = "present" -> state_present(st, p, prev_value, results)
    [] p.state = "absent" -> state_absent(st, p, prev_value, data, results)

\* main() without the check-mode block: a check-mode run goes on to act.
main_no_check_exit(st, p) ==
  real_run(st, p, get_prev_value(st), read_data(st), read_results(st))

\* main(): observe the key, then decide and act.
main(st, p) ==
  LET prev_value == get_prev_value(st)
      data == read_data(st)
      results == read_results(st)
  IN IF p.check_mode
       THEN check_mode_exit(st, p, prev_value, results)
       ELSE real_run(st, p, prev_value, data, results)

-----------------------------------------------------------------------------
(* The state machine: runs of the module and changes by other writers.     *)

VARIABLES
  store,        \* the key on the etcd server
  params,       \* the parameters of the last run
  before,       \* the key as it was when the last run started
  result,       \* how the last run ended
  repeated,     \* the last run repeated the run before it: same parameters,
                \* no other writer in between
  prevChanged,  \* when repeated: the changed flag of the run before
  mutated       \* another writer changed the key since the last run

vars == <<store, params, before, result, repeated, prevChanged, mutated>>

NoRun ==
  [status |-> "none", msg |-> "", changed |-> FALSE, dir |-> FALSE,
   calls |-> <<>>, store |-> AbsentNode]

NoParams ==
  [state |-> "absent", value |-> None, override |-> FALSE,
   recursive |-> FALSE, check_mode |-> TRUE]

Init ==
  /\ store \in Nodes
  /\ params = NoParams
  /\ before = store
  /\ result = NoRun
  /\ repeated = FALSE
  /\ prevChanged = FALSE
  /\ mutated = FALSE

\* One run of the module with parameters p.
Run(p) ==
  LET r == main(store, p)
  IN /\ store' = r.store
     /\ params' = p
     /\ before' = store
     /\ result' = r
     /\ repeated' = (result.status # "none" /\ ~mutated /\ p = params)
     /\ prevChanged' = (result.status # "none" /\ ~mutated /\ p = params
                        /\ result.changed)
     /\ mutated' = FALSE

\* Another writer leaves the key in state n.
ExternalWrite(n) ==
  /\ n # store
  /\ store' = n
  /\ mutated' = TRUE
  /\ UNCHANGED <<params, before, result, repeated, prevChanged>>

Next ==
  \/ \E p \in Params : Run(p)
  \/ \E n \in Nodes : ExternalWrite(n)

Spec == Init /\ [][Next]_vars

TypeOK ==
  /\ store \in Nodes
  /\ params \in Params
  /\ before \in Nodes
  /\ result.status \in {"none", "ok", "failed", "exception"}
  /\ result.store \in Nodes
  /\ repeated \in BOOLEAN /\ prevChanged \in BOOLEAN /\ mutated \in BOOLEAN

Ran == result.status # "none"
Mutating == result.calls # <<>>

-----------------------------------------------------------------------------
(* Properties.                                                             *)

RealRun == Ran /\ ~params.check_mode
CheckRun == Ran /\ params.check_mode

\* C1: idempotence.  A non-check-mode run that repeats the run before it
\* (same parameters, no other writer in between) reports changed=false and
\* issues no write or delete call, so changed=true is reported at most once.
C1_Idempotence ==
  (repeated /\ RealRun) =>
    /\ ~result.changed
    /\ result.calls = <<>>
    /\ ~(prevChanged /\ result.changed)

\* C2: dry-run fidelity.  A check-mode run reports the changed flag the real
\* run would report on the same observed key, and fails exactly when the
\* real run fails.
C2_DryRunFidelity ==
  CheckRun =>
    LET real == main(before, [params EXCEPT !.check_mode = FALSE])
    IN /\ result.changed = real.changed
       /\ (result.status = "ok") <=> (real.status = "ok")
       /\ (result.status # "ok") => result.msg = real.msg

\* C3: a check-mode run issues no write and no delete call and leaves the
\* key as it found it.
C3_DryRunStoreUnchanged ==
  CheckRun => (result.calls = <<>> /\ result.store = before)

\* C3 witness: a check-mode run that announces a change has ended.
C3_Witness ==
  /\ CheckRun
  /\ result.changed
  /\ before.kind # "absent"
  /\ result.store = before

\* C4: no silent overwrite.  With state=present, a leaf holding another
\* value than the supplied non-null one and override=false, the run fails
\* with OverwriteRefused, issues no write and leaves the value as it was.
C4_NoSilentOverwrite ==
  (Ran /\ params.state = "present" /\ before.kind = "leaf"
       /\ params.value # None /\ before.value # params.value
       /\ ~params.override) =>
    /\ result.status = "failed"
    /\ result.msg = "OverwriteRefused"
    /\ result.calls = <<>>
    /\ result.store = before

\* C5: directory deletion guard.  With state=absent, a directory with at
\* least one child and recursive=false, the run fails with
\* DirectoryNotEmpty and issues no delete call.
C5_DirectoryDeletionGuard ==
  (Ran /\ params.state = "absent" /\ before.kind = "dir"
       /\ before.children # {} /\ ~params.recursive) =>
    /\ result.status = "failed"
    /\ result.msg = "DirectoryNotEmpty"
    /\ result.calls = <<>>
    /\ result.store = before

\* C6: convergence.  After a non-check-mode run that ends without failure
\* the key is in the requested state: a leaf (with the supplied value when
\* one was supplied), a directory, or gone.
C6_Convergence ==
  (RealRun /\ result.status = "ok") =>
    CASE params.state = "present" ->
           /\ result.store.kind = "leaf"
           /\ (params.value # None => result.store.value = params.value)
      [] params.state = "directory" -> result.store.kind = "dir"
      [] params.state = "absent" -> result.store.kind = "absent"

\* C7: empty directory delete.  With state=absent and a directory without
\* children, a non-check-mode run issues a non-recursive directory delete
\* and reports changed=true, whatever recursive is.
C7_EmptyDirectoryDelete ==
  (RealRun /\ params.state = "absent" /\ before = DirNode({})) =>
    /\ result.calls = <<"delete_dir">>
    /\ result.changed

\* C8: path conflict.  When the requested kind conflicts with the kind at
\* the key (state=directory on a leaf, state=present on a directory) the
\* run fails with PathConflict and issues no write or delete call.
C8_PathConflict ==
  (Ran /\ \/ (params.state = "directory" /\ before.kind = "leaf")
          \/ (params.state = "present" /\ before.kind = "dir")) =>
    /\ result.status = "failed"
    /\ result.msg = "PathConflict"
    /\ result.calls = <<>>

\* C9: missing value.  With state=present, a key that does not exist and no
\* value, a non-check-mode run fails with MissingValue, issues no write, and
\* the key still does not exist afterwards.
C9_MissingValue ==
  (RealRun /\ params.state = "present" /\ before.kind = "absent"
           /\ params.value = None) =>
    /\ result.status = "failed"
    /\ result.msg = "MissingValue"
    /\ result.calls = <<>>
    /\ result.store.kind = "absent"

\* C9 witness: such a run has ended in the MissingValue failure.
C9_Witness ==
  /\ RealRun
  /\ params.state = "present"
  /\ params.value = None
  /\ before.kind = "absent"
  /\ result.msg = "MissingValue"

\* C10: the changed flag matches the mutation.  A non-check-mode run that
\* ends without failure reports changed=true exactly when it issued a
\* mutating call, and no run issues more than one mutating call.
C10_ChangedMatchesMutation ==
  /\ (RealRun /\ result.status = "ok") => (result.changed <=> Mutating)
  /\ Len(result.calls) <= 1

\* C10 witness: a run that deleted a leaf and reported the change.
C10_Witness ==
  /\ RealRun
  /\ result.status = "ok"
  /\ result.changed
  /\ result.calls = <<"delete">>
  /\ before.kind = "leaf"
  /\ result.store.kind = "absent"

====
